---- MODULE Spec2Model ----
(***************************************************************************)
(* Model of the Word Automator backend (src/main.py): the template         *)
(* registry TEMPLATES, the text transformers autocorrect_text,             *)
(* summarize_text, analyze_text and autofill_template, the POST /process   *)
(* dispatcher process_text and the HTTP routes around it.                  *)
(*                                                                         *)
(* A Python str is modelled as a sequence of code points, each a one-      *)
(* character TLA+ string; the three non-ASCII code points the source       *)
(* prints are named ROBOT_FACE, MEMO and ARROW.  Optional[str] is a        *)
(* record [isNone, v].  A float the source computes by a division is kept  *)
(* as the exact quotient [num, den]; its rounding to decimals and the      *)
(* timestamps (datetime.now()) are left out.                               *)
(***************************************************************************)
EXTENDS Integers, Sequences, FiniteSets, TLC

\* TEMPLATES: the module-level registry; request: the request being served;
\* response: what its handler answered; processed: the number of POST /process
\* calls answered 200 so far (a history variable: the source keeps no such state)
VARIABLES TEMPLATES, request, response, processed

vars == <<TEMPLATES, request, response, processed>>

(***************************************************************************)
(* Bounds of the model.                                                    *)
(***************************************************************************)
\* longest text enumerated character by character over Alphabet
MaxLen == 3
\* the long texts have up to SummaryLimit + ExtraWords words
ExtraWords == 2
\* the counter of successful /process calls stops growing here
MaxCalls == 2

(***************************************************************************)
(* Program constants.                                                      *)
(***************************************************************************)
\* summarize_text keeps the first 30 words
SummaryLimit == 30
\* analyze_text: 200 words per minute
WordsPerMinute == 200
\* analyze_text: complexity thresholds
EasyBelow == 100
ModerateBelow == 300

(***************************************************************************)
(* Python str primitives.                                                  *)
(***************************************************************************)
ROBOT_FACE == "<U+1F916>"
MEMO == "<U+1F4DD>"
ARROW == "<U+2192>"

\* the ASCII characters str.isspace() accepts that TLA+ can write
Whitespace == {" ", "\t", "\n", "\r", "\f"}

LowerAlpha ==
    <<"a","b","c","d","e","f","g","h","i","j","k","l","m",
      "n","o","p","q","r","s","t","u","v","w","x","y","z">>

UpperAlpha ==
    <<"A","B","C","D","E","F","G","H","I","J","K","L","M",
      "N","O","P","Q","R","S","T","U","V","W","X","Y","Z">>

Digits == <<"0","1","2","3","4","5","6","7","8","9">>

IndexIn(c, alpha) ==
    IF \E i \in DOMAIN alpha : alpha[i] = c
    THEN CHOOSE i \in DOMAIN alpha : alpha[i] = c
    ELSE 0

\* c.isupper()
isupper(c) == IndexIn(c, UpperAlpha) # 0

\* c.isdigit()
isdigit(c) == IndexIn(c, Digits) # 0

upper_char(c) ==
    IF IndexIn(c, LowerAlpha) # 0 THEN UpperAlpha[IndexIn(c, LowerAlpha)] ELSE c

lower_char(c) ==
    IF IndexIn(c, UpperAlpha) # 0 THEN LowerAlpha[IndexIn(c, UpperAlpha)] ELSE c

\* str.upper()
upper(s) == [i \in 1..Len(s) |-> upper_char(s[i])]

\* str.lower()
lower(s) == [i \in 1..Len(s) |-> lower_char(s[i])]

\* str.capitalize(): first character upper-cased, all the others lower-cased
capitalize(s) ==
    [i \in 1..Len(s) |-> IF i = 1 THEN upper_char(s[i]) ELSE lower_char(s[i])]

\* the elements of a finite set of integers in ascending order
ascending(S) ==
    [k \in 1..Cardinality(S) |-> CHOOSE i \in S : Cardinality({j \in S : j < i}) = k - 1]

\* the least element of a non-empty set of integers
least(S) == CHOOSE i \in S : \A j \in S : i <= j

\* the greatest element of a non-empty set of integers
greatest(S) == CHOOSE i \in S : \A j \in S : i >= j

\* the positions of s that hold no whitespace
ink(s) == {i \in 1..Len(s) : s[i] \notin Whitespace}

\* str.lstrip()
lstrip(s) == IF ink(s) = {} THEN <<>> ELSE SubSeq(s, least(ink(s)), Len(s))

\* str.rstrip()
rstrip(s) == IF ink(s) = {} THEN <<>> ELSE SubSeq(s, 1, greatest(ink(s)))

\* str.strip()
strip(s) == rstrip(lstrip(s))

\* str.split(): the maximal runs of non-whitespace characters, left to right
split(s) ==
    LET starts == ascending({i \in ink(s) : i = 1 \/ s[i - 1] \in Whitespace})
        ends == ascending({i \in ink(s) : i = Len(s) \/ s[i + 1] \in Whitespace})
    IN  [k \in 1..Len(starts) |-> SubSeq(s, starts[k], ends[k])]

\* str.split(sep) for a one-character sep: the text between consecutive
\* separators, empty segments kept
split_on(s, sep) ==
    LET cuts == ascending({i \in 1..Len(s) : s[i] = sep})
        lo(k) == IF k = 1 THEN 1 ELSE cuts[k - 1] + 1
        hi(k) == IF k = Len(cuts) + 1 THEN Len(s) ELSE cuts[k] - 1
    IN  [k \in 1..(Len(cuts) + 1) |-> SubSeq(s, lo(k), hi(k))]

RECURSIVE join_range(_, _, _, _)
\* sep.join(parts[lo..hi]), halving the range
join_range(sep, parts, lo, hi) ==
    IF lo > hi THEN <<>>
    ELSE IF lo = hi THEN parts[lo]
    ELSE LET mid == (lo + hi) \div 2
         IN  join_range(sep, parts, lo, mid) \o sep \o join_range(sep, parts, mid + 1, hi)

\* sep.join(parts)
join(sep, parts) == join_range(sep, parts, 1, Len(parts))

\* str.endswith(suffix)
endswith(s, suffix) ==
    /\ Len(s) >= Len(suffix)
    /\ SubSeq(s, Len(s) - Len(suffix) + 1, Len(s)) = suffix

\* old occurs in s at position i
occurs_at(s, old, i) ==
    /\ i + Len(old) - 1 <= Len(s)
    /\ \A k \in 1..Len(old) : s[i + k - 1] = old[k]

RECURSIVE replace_from(_, _, _, _, _)
\* the rest of str.replace from position i on: the leftmost occurrence at or
\* after i is replaced, and the search resumes behind it
replace_from(s, old, new, i, acc) ==
    LET found == {j \in i..Len(s) : occurs_at(s, old, j)}
    IN  IF found = {} THEN acc \o SubSeq(s, i, Len(s))
        ELSE replace_from(s, old, new, least(found) + Len(old),
                          acc \o SubSeq(s, i, least(found) - 1) \o new)

\* str.replace(old, new) for a non-empty old
replace(s, old, new) == replace_from(s, old, new, 1, <<>>)

\* s with every element of the set drop removed: s.replace(' ', '')
without(s, drop) == SelectSeq(s, LAMBDA c : c \notin drop)

RECURSIVE str_nat(_)
\* str(n) for a natural number n
str_nat(n) ==
    IF n < 10 THEN <<Digits[n + 1]>>
    ELSE Append(str_nat(n \div 10), Digits[(n % 10) + 1])

\* Optional[str]
None == [isNone |-> TRUE, v |-> <<>>]

Some(x) == [isNone |-> FALSE, v |-> x]

\* x or default: None and the empty string are falsy
or_default(x, default) == IF x.isNone \/ x.v = <<>> THEN default ELSE x.v

(***************************************************************************)
(* String literals of the source, and of the requests the model sends.     *)
(***************************************************************************)
s_title ==
    <<"t","i","t","l","e">>

s_summary ==
    <<"s","u","m","m","a","r","y">>

s_findings ==
    <<"f","i","n","d","i","n","g","s">>

s_recommendations ==
    <<"r","e","c","o","m","m","e","n","d","a","t","i","o","n","s">>

s_next_steps ==
    <<"n","e","x","t","_","s","t","e","p","s">>

s_date ==
    <<"d","a","t","e">>

s_author ==
    <<"a","u","t","h","o","r">>

s_subject ==
    <<"s","u","b","j","e","c","t">>

s_recipient_name ==
    <<"r","e","c","i","p","i","e","n","t","_","n","a","m","e">>

s_email_body ==
    <<"e","m","a","i","l","_","b","o","d","y">>

s_sender_name ==
    <<"s","e","n","d","e","r","_","n","a","m","e">>

s_position ==
    <<"p","o","s","i","t","i","o","n">>

s_company ==
    <<"c","o","m","p","a","n","y">>

s_meeting_title ==
    <<"m","e","e","t","i","n","g","_","t","i","t","l","e">>

s_time ==
    <<"t","i","m","e">>

s_location ==
    <<"l","o","c","a","t","i","o","n">>

s_attendees ==
    <<"a","t","t","e","n","d","e","e","s">>

s_agenda ==
    <<"a","g","e","n","d","a">>

s_discussion ==
    <<"d","i","s","c","u","s","s","i","o","n">>

s_action_items ==
    <<"a","c","t","i","o","n","_","i","t","e","m","s">>

s_next_meeting ==
    <<"n","e","x","t","_","m","e","e","t","i","n","g">>

s_business_report ==
    <<"b","u","s","i","n","e","s","s","_","r","e","p","o","r","t">>

business_report_name ==
    <<"B","u","s","i","n","e","s","s"," ","R","e","p","o","r","t">>

business_report_content ==
    <<"#"," ","{","t","i","t","l","e","}","\n","\n","#","#"," ","E","x","e","c","u","t","i",
    "v","e"," ","S","u","m","m","a","r","y","\n","{","s","u","m","m","a","r","y","}","\n",
    "\n","#","#"," ","K","e","y"," ","F","i","n","d","i","n","g","s","\n","{","f","i","n",
    "d","i","n","g","s","}","\n","\n","#","#"," ","R","e","c","o","m","m","e","n","d","a",
    "t","i","o","n","s","\n","{","r","e","c","o","m","m","e","n","d","a","t","i","o","n",
    "s","}","\n","\n","#","#"," ","N","e","x","t"," ","S","t","e","p","s","\n","{","n","e",
    "x","t","_","s","t","e","p","s","}","\n","\n","*","*","D","a","t","e",":","*","*"," ",
    "{","d","a","t","e","}","\n","*","*","P","r","e","p","a","r","e","d"," ","b","y",":",
    "*","*"," ","{","a","u","t","h","o","r","}">>

business_report_variables ==
    <<s_title, s_summary, s_findings, s_recommendations, s_next_steps, s_date, s_author>>

s_email_template ==
    <<"e","m","a","i","l","_","t","e","m","p","l","a","t","e">>

email_template_name ==
    <<"P","r","o","f","e","s","s","i","o","n","a","l"," ","E","m","a","i","l">>

email_template_content ==
    <<"S","u","b","j","e","c","t",":"," ","{","s","u","b","j","e","c","t","}","\n","\n","D",
    "e","a","r"," ","{","r","e","c","i","p","i","e","n","t","_","n","a","m","e","}",",",
    "\n","\n","{","e","m","a","i","l","_","b","o","d","y","}","\n","\n","B","e","s","t"," ",
    "r","e","g","a","r","d","s",",","\n","{","s","e","n","d","e","r","_","n","a","m","e",
    "}","\n","{","p","o","s","i","t","i","o","n","}","\n","{","c","o","m","p","a","n","y",
    "}">>

email_template_variables ==
    <<s_subject, s_recipient_name, s_email_body, s_sender_name, s_position, s_company>>

s_meeting_minutes ==
    <<"m","e","e","t","i","n","g","_","m","i","n","u","t","e","s">>

meeting_minutes_name ==
    <<"M","e","e","t","i","n","g"," ","M","i","n","u","t","e","s">>

meeting_minutes_content ==
    <<"#"," ","M","e","e","t","i","n","g"," ","M","i","n","u","t","e","s",":"," ","{","m","e",
    "e","t","i","n","g","_","t","i","t","l","e","}","\n","\n","*","*","D","a","t","e",":",
    "*","*"," ","{","d","a","t","e","}","\n","*","*","T","i","m","e",":","*","*"," ","{",
    "t","i","m","e","}","\n","*","*","L","o","c","a","t","i","o","n",":","*","*"," ","{",
    "l","o","c","a","t","i","o","n","}","\n","*","*","A","t","t","e","n","d","e","e","s",
    ":","*","*"," ","{","a","t","t","e","n","d","e","e","s","}","\n","\n","#","#"," ","A",
    "g","e","n","d","a","\n","{","a","g","e","n","d","a","}","\n","\n","#","#"," ","D","i",
    "s","c","u","s","s","i","o","n"," ","P","o","i","n","t","s","\n","{","d","i","s","c",
    "u","s","s","i","o","n","}","\n","\n","#","#"," ","A","c","t","i","o","n"," ","I","t",
    "e","m","s","\n","{","a","c","t","i","o","n","_","i","t","e","m","s","}","\n","\n","#",
    "#"," ","N","e","x","t"," ","M","e","e","t","i","n","g","\n","{","n","e","x","t","_",
    "m","e","e","t","i","n","g","}">>

meeting_minutes_variables ==
    <<s_meeting_title, s_date, s_time, s_location, s_attendees, s_agenda, s_discussion, s_action_items, s_next_meeting>>

s_formal ==
    <<"f","o","r","m","a","l">>

s_casual ==
    <<"c","a","s","u","a","l">>

s_None ==
    <<"N","o","n","e">>

s_AI_Corrected ==
    <<" ","A","I"," ","C","o","r","r","e","c","t","e","d"," ","(">>

s_label_end ==
    <<")",":","\n">>

s_Summary ==
    <<" ","S","u","m","m","a","r","y"," ","(">>

s_words_sp ==
    <<" ","w","o","r","d","s"," ">>

s_words ==
    <<" ","w","o","r","d","s">>

s_ellipsis ==
    <<".",".",".">>

s_HERE ==
    <<"_","H","E","R","E","]">>

s_Template_not_found ==
    <<"T","e","m","p","l","a","t","e"," ","n","o","t"," ","f","o","u","n","d">>

s_quick ==
    <<"T","h","e"," ","q","u","i","c","k"," ","b","r","o","w","n"," ","f","o","x"," ","j","u",
    "m","p","s",".">>

s_hello ==
    <<"h","e","l","l","o"," ","w","o","r","l","d">>

s_Hi ==
    <<"H","i">>

s_zz ==
    <<"z","z">>

s_nope ==
    <<"n","o","p","e">>

s_Foo_Bar ==
    <<"F","o","o"," ","B","a","r">>


s_Fixed_grammar_and ==
    <<"F","i","x","e","d"," ","g","r","a","m","m","a","r"," ","a","n","d"," ">>

s_style_applied ==
    <<" ","s","t","y","l","e"," ","a","p","p","l","i","e","d">>

s_instructions ==
    <<"F","i","l","l"," ","t","h","e"," ","{","v","a","r","i","a","b","l","e","s","}"," ","w",
    "i","t","h"," ","y","o","u","r"," ","c","o","n","t","e","n","t">>

s_x ==
    <<"x">>

(***************************************************************************)
(* The template registry.                                                  *)
(***************************************************************************)
TemplateIds == {s_business_report, s_email_template, s_meeting_minutes}

\* TEMPLATES as the module defines it
SeedTemplates ==
    [id \in TemplateIds |->
        IF id = s_business_report
        THEN [name |-> business_report_name, content |-> business_report_content,
              variables |-> business_report_variables]
        ELSE IF id = s_email_template
        THEN [name |-> email_template_name, content |-> email_template_content,
              variables |-> email_template_variables]
        ELSE [name |-> meeting_minutes_name, content |-> meeting_minutes_content,
              variables |-> meeting_minutes_variables]]

\* the id used when the request names none
DefaultTemplate == s_business_report

\* TEMPLATES.get(template_name or "business_report"); found = FALSE stands for None
templates_get(registry, template_name) ==
    LET id == or_default(template_name, DefaultTemplate)
    IN  IF id \in DOMAIN registry
        THEN [found |-> TRUE, id |-> id, template |-> registry[id]]
        ELSE [found |-> FALSE, id |-> id, template |-> [name |-> <<>>, content |-> <<>>, variables |-> <<>>]]

(***************************************************************************)
(* The text transformers.  A value is [raised, value]: raised names the    *)
(* Python exception the call ends with, "" when it returns value.          *)
(***************************************************************************)
Returned(x) == [raised |-> "", value |-> x]

Raised(exc) == [raised |-> exc, value |-> <<>>]

\* str(style) inside an f-string
format_style(style) == IF style.isNone THEN s_None ELSE style.v

\* [s.strip() for s in text.split('.') if s.strip()]
sentences_of(text) ==
    LET parts == split_on(text, ".")
        stripped == [i \in 1..Len(parts) |-> strip(parts[i])]
    IN  SelectSeq(stripped, LAMBDA s : s # <<>>)

\* the formal branch: capitalize each sentence, join with '. ', end with '.'
formal_correction(sentences) ==
    LET capitalized == [i \in 1..Len(sentences) |-> capitalize(sentences[i])]
        corrected == join(<<".", " ">>, capitalized)
    IN  IF endswith(corrected, <<".">>) THEN corrected ELSE Append(corrected, ".")

\* the casual branch: lower-case everything, upper-case the first character
casual_correction(text) ==
    LET corrected == lower(text)
    IN  IF corrected # <<>> THEN <<upper_char(corrected[1])>> \o Tail(corrected)
        ELSE corrected

autocorrect_text(text, style) ==
    IF text = <<>> THEN text
    ELSE LET stripped == strip(text)
             sentences == sentences_of(stripped)
             corrected ==
                 IF style = Some(s_formal) THEN formal_correction(sentences)
                 ELSE IF style = Some(s_casual) THEN casual_correction(stripped)
                 ELSE capitalize(stripped)
         IN  <<ROBOT_FACE>> \o s_AI_Corrected \o format_style(style) \o s_label_end
                 \o corrected

\* f"... Summary ({n} words -> {m} words):\n{summary}"
summary_label(n, summary) ==
    <<MEMO>> \o s_Summary \o str_nat(n) \o s_words_sp \o <<ARROW>> \o <<" ">>
        \o str_nat(Len(split(summary))) \o s_words \o s_label_end \o summary

summarize_text(text) ==
    LET words == split(text)
    IN  IF Len(words) <= SummaryLimit THEN text
        ELSE LET first == join(<<" ">>, SubSeq(words, 1, SummaryLimit))
                 summary == IF Len(words) > SummaryLimit THEN first \o s_ellipsis
                            ELSE first
             IN  summary_label(Len(words), summary)

\* max(n, 1)
at_least_one(n) == IF n > 1 THEN n ELSE 1

\* the complexity label of a word count
complexity_of(word_count) ==
    IF word_count < EasyBelow THEN "Easy"
    ELSE IF word_count < ModerateBelow THEN "Moderate"
    ELSE "Complex"

\* a slip of sentence_segments: the filter is "if s", so blank segments count
sentence_segments_if_s(text) == SelectSeq(split_on(text, "."), LAMBDA s : s # <<>>)

\* [s for s in text.split('.') if s.strip()]
sentence_segments(text) ==
    SelectSeq(split_on(text, "."), LAMBDA s : strip(s) # <<>>)

\* num / den: ZeroDivisionError when den is 0, else the quotient
divide(num, den) ==
    IF den = 0 THEN Raised("ZeroDivisionError")
    ELSE Returned([num |-> num, den |-> den])

analyze_text(text) ==
    LET words == split(text)
        sentences == sentence_segments(text)
        characters == Len(without(text, {" "}))
        average_word_length == divide(characters, at_least_one(Len(words)))
        average_sentence_length == divide(Len(words), at_least_one(Len(sentences)))
        reading_time_minutes == divide(Len(words), WordsPerMinute)
    IN  IF \/ average_word_length.raised # ""
           \/ average_sentence_length.raised # ""
           \/ reading_time_minutes.raised # ""
        THEN Raised("ZeroDivisionError")
        ELSE Returned(
            [word_count |-> Len(words),
             sentence_count |-> Len(sentences),
             character_count |-> Len(text),
             characters_no_spaces |-> characters,
             average_word_length |-> average_word_length.value,
             average_sentence_length |-> average_sentence_length.value,
             reading_time_minutes |-> reading_time_minutes.value,
             complexity |-> complexity_of(Len(words)),
             key_metrics |->
                 [has_punctuation |-> \E i \in 1..Len(text) : text[i] \in {".", "!", "?"},
                  has_capitals |-> \E i \in 1..Len(text) : isupper(text[i]),
                  has_numbers |-> \E i \in 1..Len(text) : isdigit(text[i])]])

\* a supplied value: a str, or something that is not one (a number, a list, ...)
Str(s) == [isStr |-> TRUE, v |-> s]

NotStr == [isStr |-> FALSE, v |-> <<>>]

\* a slip of default_marker: the name is not upper-cased
default_marker_as_is(var) == <<"[">> \o var \o s_HERE

\* f"[{var.upper()}_HERE]"
default_marker(var) == <<"[">> \o upper(var) \o s_HERE

\* variables.get(var, f"[{var.upper()}_HERE]")
variables_get(variables, var) ==
    IF var \in DOMAIN variables THEN variables[var] ELSE Str(default_marker(var))

\* f"{{{var}}}"
placeholder(var) == <<"{">> \o var \o <<"}">>

RECURSIVE fill_from(_, _, _, _)
\* the loop over template["variables"], from its i-th variable on;
\* str.replace raises TypeError when the value is not a str
fill_from(filled, declared, i, variables) ==
    IF i > Len(declared) THEN Returned(filled)
    ELSE LET value == variables_get(variables, declared[i])
         IN  IF ~value.isStr THEN Raised("TypeError")
             ELSE fill_from(replace(filled, placeholder(declared[i]), value.v),
                            declared, i + 1, variables)

RECURSIVE fill_keys(_, _, _)
\* replaces the placeholder of every key of the set keys
fill_keys(filled, keys, variables) ==
    IF keys = {} \/ filled.raised # "" THEN filled
    ELSE LET k == CHOOSE x \in keys : TRUE
         IN  IF ~variables[k].isStr THEN Raised("TypeError")
             ELSE fill_keys(Returned(replace(filled.value, placeholder(k), variables[k].v)),
                            keys \ {k}, variables)

\* a slip of autofill_template: the supplied keys are substituted too
autofill_template_supplied_keys(registry, template_name, context, variables) ==
    LET got == templates_get(registry, template_name)
        declared == {got.template.variables[i] : i \in DOMAIN got.template.variables}
    IN  IF ~got.found THEN Returned(s_Template_not_found)
        ELSE fill_keys(fill_from(got.template.content, got.template.variables, 1, variables),
                       DOMAIN variables \ declared, variables)

autofill_template(registry, template_name, context, variables) ==
    LET got == templates_get(registry, template_name)
    IN  IF ~got.found THEN Returned(s_Template_not_found)
        ELSE fill_from(got.template.content, got.template.variables, 1, variables)

(***************************************************************************)
(* Responses.                                                              *)
(***************************************************************************)
\* what a handler returns: FastAPI serialises it with status 200
Ok(body) == [status |-> 200, body |-> body]

\* http_exception_handler: the envelope of a raised fastapi.HTTPException
http_exception_handler(status_code, msg, arg) ==
    [status |-> status_code,
     body |-> [success |-> FALSE, error |-> [msg |-> msg, arg |-> arg],
               status_code |-> status_code]]

\* the except Exception branch of process_text: any other exception becomes a 500
internal_error(exc) ==
    http_exception_handler(500, "Internal server error: ", exc)

\* the permissive policy: an unknown action echoes the text back
unknown_action_echo(req) ==
    Ok([success |-> TRUE, action |-> req.action,
        original_text_length |-> Len(req.text), type |-> "text", result |-> req.text])

\* the else branch of process_text
unknown_action(req) ==
    http_exception_handler(400, "Unknown action: ", req.action)

(***************************************************************************)
(* POST /process.                                                          *)
(***************************************************************************)
process_autocorrect(req) ==
    Ok([success |-> TRUE, action |-> req.action,
        original_text_length |-> Len(req.text),
        type |-> "text",
        result |-> autocorrect_text(req.text, req.style),
        style |-> req.style,
        improvement |-> s_Fixed_grammar_and \o format_style(req.style) \o s_style_applied])

process_template(registry, req) ==
    LET got == templates_get(registry, req.template_name)
    IN  IF ~got.found
        THEN http_exception_handler(404, "Template not found", "")
        ELSE Ok([success |-> TRUE, action |-> req.action,
                 original_text_length |-> Len(req.text),
                 type |-> "template",
                 template_name |-> got.template.name,
                 content |-> got.template.content,
                 variables |-> got.template.variables,
                 instructions |-> s_instructions])

\* reduction_percentage is (1 - len(summary) / len(text)) * 100, kept as the
\* quotient len(summary) / len(text); the division raises for the empty text
process_summarize(req) ==
    LET summary == summarize_text(req.text)
        quotient == divide(Len(summary), Len(req.text))
    IN  IF quotient.raised # "" THEN internal_error(quotient.raised)
        ELSE Ok([success |-> TRUE, action |-> req.action,
                 original_text_length |-> Len(req.text),
                 type |-> "text",
                 result |-> summary,
                 reduction_percentage |-> quotient.value,
                 original_words |-> Len(split(req.text)),
                 summary_words |-> Len(split(summary))])

process_analyze(req) ==
    LET analysis == analyze_text(req.text)
    IN  IF analysis.raised # "" THEN internal_error(analysis.raised)
        ELSE Ok([success |-> TRUE, action |-> req.action,
                 original_text_length |-> Len(req.text),
                 type |-> "analysis",
                 analysis |-> analysis.value])

\* request.variables or {}
variables_or_empty(variables) == IF variables.isNone THEN <<>> ELSE variables.v

process_autofill(registry, req) ==
    LET filled == autofill_template(registry, req.template_name, req.text,
                                    variables_or_empty(req.variables))
    IN  IF filled.raised # "" THEN internal_error(filled.raised)
        ELSE Ok([success |-> TRUE, action |-> req.action,
                 original_text_length |-> Len(req.text),
                 type |-> "filled_template",
                 result |-> filled.value,
                 template_used |-> req.template_name])

process_text(registry, req) ==
    IF req.action = "autocorrect" THEN process_autocorrect(req)
    ELSE IF req.action = "template" THEN process_template(registry, req)
    ELSE IF req.action = "summarize" THEN process_summarize(req)
    ELSE IF req.action = "analyze" THEN process_analyze(req)
    ELSE IF req.action = "autofill" THEN process_autofill(registry, req)
    ELSE unknown_action(req)

(***************************************************************************)
(* Routing.  The routes are GET /, /health, /config and /templates,        *)
(* OPTIONS on every path ("/{path:path}") and POST /process.  Every path   *)
(* matches the OPTIONS route, so a request whose method no route of its    *)
(* path accepts is a partial match, which the router answers 405 with the  *)
(* framework's own body.  An OPTIONS request here is one the CORS          *)
(* middleware passes on (no preflight headers).                            *)
(***************************************************************************)
GetPaths == {"/", "/health", "/config", "/templates"}

route_of(method, path) ==
    IF method = "GET" /\ path \in GetPaths THEN path
    ELSE IF method = "OPTIONS" THEN "options"
    ELSE IF method = "POST" /\ path = "/process" THEN "/process"
    ELSE "none"

method_not_allowed == [status |-> 405, body |-> [detail |-> "Method Not Allowed"]]

(***************************************************************************)
(* The requests the clients send.                                          *)
(***************************************************************************)
Alphabet == {"a", "B", " ", "."}

ShortTexts == UNION {[1..n -> Alphabet] : n \in 0..MaxLen}

\* the words "1", "2", ..., "n" with sep between them
numbered_words(n, sep) == join(sep, [i \in 1..n |-> str_nat(i)])

Separators == {<<" ">>, <<" ", " ">>, <<"\n">>}

LongTexts ==
    {numbered_words(n, sep) \o tail :
        n \in (SummaryLimit - 1)..(SummaryLimit + ExtraWords),
        sep \in Separators, tail \in {<<>>, <<" ">>}}

Texts == ShortTexts \cup LongTexts \cup {s_quick, s_hello}

Styles == {Some(s_formal), Some(s_casual), Some(s_x), None}

TemplateNames ==
    {None, Some(<<>>), Some(s_nope)} \cup {Some(id) : id \in TemplateIds}

Keys == {s_subject, s_date, s_zz}

Values == {Str(s_Hi), Str(placeholder(s_date)), Str(placeholder(s_zz)), NotStr}

Mappings == UNION {[K -> Values] : K \in SUBSET Keys}

VarMaps == {None} \cup {Some(m) : m \in Mappings}

KnownActions == {"autocorrect", "template", "summarize", "analyze", "autofill"}

UnknownActions == {"", "translate"}

ProcessRequest(action, text, template_name, style, variables) ==
    [action |-> action, text |-> text, template_name |-> template_name,
     style |-> style, variables |-> variables]

ProcessRequests ==
    {ProcessRequest("autocorrect", t, None, s, None) : t \in Texts, s \in Styles}
    \cup {ProcessRequest(a, t, None, Some(s_formal), None) :
            a \in {"summarize", "analyze"}, t \in Texts}
    \cup {ProcessRequest("template", <<>>, n, Some(s_formal), None) :
            n \in TemplateNames}
    \cup {ProcessRequest("autofill", <<>>, n, Some(s_formal), m) :
            n \in TemplateNames, m \in VarMaps}
    \cup {ProcessRequest(a, t, n, s, m) :
            a \in UnknownActions, t \in {<<>>, s_hello},
            n \in {None, Some(s_nope), Some(s_email_template)},
            s \in {Some(s_formal), None},
            m \in {None, Some([k \in {s_zz} |-> NotStr])}}

NoBody == [none |-> TRUE]

Request(method, path, body) == [method |-> method, path |-> path, body |-> body]

TemplateBodies ==
    {[name |-> n, content |-> c, variables |-> v] :
        n \in {s_Foo_Bar, business_report_name},
        c \in {placeholder(s_zz), s_Hi}, v \in {<<>>, <<s_zz>>}}

Requests ==
    {Request("GET", p, NoBody) : p \in GetPaths}
    \cup {Request("OPTIONS", p, NoBody) : p \in {"/process", "/templates"}}
    \cup {Request("POST", "/process", b) : b \in ProcessRequests}
    \cup {Request("POST", "/templates", b) : b \in TemplateBodies}
    \cup {Request("GET", "/logs", [limit |-> n]) : n \in 0..MaxCalls}

NoRequest == Request("", "", NoBody)

NoResponse == [status |-> 0, body |-> NoBody]

(***************************************************************************)
(* The state machine: a request arrives, its handler runs to the end, the  *)
(* response is delivered.  processed counts the POST /process calls that   *)
(* returned 200.                                                           *)
(***************************************************************************)
Idle == request.method = "" /\ response.status = 0

Pending == request.method # "" /\ response.status = 0

Done == response.status # 0

Routed(route) == Pending /\ route_of(request.method, request.path) = route

Init ==
    /\ TEMPLATES = SeedTemplates
    /\ request = NoRequest
    /\ response = NoResponse
    /\ processed = 0

Receive ==
    /\ Idle
    /\ \E req \in Requests :
        /\ req.path = "/process" => processed < MaxCalls
        /\ request' = req
    /\ UNCHANGED <<TEMPLATES, response, processed>>

root ==
    /\ Routed("/")
    /\ response' = Ok([service |-> "Word Automator AI Backend", status |-> "online",
                       version |-> "1.0.0",
                       endpoints |-> [health |-> "/health", config |-> "/config",
                                      templates |-> "/templates",
                                      process |-> "/process (POST)", logs |-> "/logs"]])
    /\ UNCHANGED <<TEMPLATES, request, processed>>

health_check ==
    /\ Routed("/health")
    /\ response' = Ok([status |-> "healthy", service |-> "Word Automator AI"])
    /\ UNCHANGED <<TEMPLATES, request, processed>>

get_config ==
    /\ Routed("/config")
    /\ response' = Ok([cors_enabled |-> TRUE, office_compatible |-> TRUE,
                       templates_count |-> Cardinality(DOMAIN TEMPLATES),
                       api_version |-> "1.0.0"])
    /\ UNCHANGED <<TEMPLATES, request, processed>>

get_templates ==
    /\ Routed("/templates")
    /\ response' = Ok([templates |-> TEMPLATES, count |-> Cardinality(DOMAIN TEMPLATES)])
    /\ UNCHANGED <<TEMPLATES, request, processed>>

options_handler ==
    /\ Routed("options")
    /\ response' = Ok([message |-> "CORS preflight successful"])
    /\ UNCHANGED <<TEMPLATES, request, processed>>

process ==
    /\ Routed("/process")
    /\ response' = process_text(TEMPLATES, request.body)
    /\ processed' = IF response'.status = 200 THEN processed + 1 ELSE processed
    /\ UNCHANGED <<TEMPLATES, request>>

no_route ==
    /\ Routed("none")
    /\ response' = method_not_allowed
    /\ UNCHANGED <<TEMPLATES, request, processed>>

Deliver ==
    /\ Done
    /\ request' = NoRequest
    /\ response' = NoResponse
    /\ UNCHANGED <<TEMPLATES, processed>>

Next ==
    \/ Receive
    \/ root
    \/ health_check
    \/ get_config
    \/ get_templates
    \/ options_handler
    \/ process
    \/ no_route
    \/ Deliver

Spec == Init /\ [][Next]_vars

(***************************************************************************)
(* The properties the specification states of these operations.           *)
(***************************************************************************)
\* the handled request is a POST /process with this action
Processed(action) ==
    /\ Done
    /\ request.method = "POST" /\ request.path = "/process"
    /\ request.body.action = action

\* the number of whitespace-delimited tokens of s
TokenCount(s) ==
    Cardinality({i \in 1..Len(s) :
        s[i] \notin Whitespace /\ (i = 1 \/ s[i - 1] \in Whitespace)})

\* C1: a POST /process request whose action is none of autocorrect, summarize,
\* analyze, template, autofill is answered 400 with success = false, whatever
\* its text, template_name, style and variables are.
C1_UnknownActionIsBadRequest ==
    (/\ Done
     /\ request.method = "POST" /\ request.path = "/process"
     /\ request.body.action \notin KnownActions)
    => /\ response.status = 400
       /\ response.body.success = FALSE
       /\ response.body.status_code = 400

C1_Witness ==
    /\ Processed("translate")
    /\ request.body.text = s_hello
    /\ request.body.template_name = Some(s_nope)
    /\ ~request.body.variables.isNone
    /\ response.status = 400

\* the request names an explicit template id that the registry does not hold
NamesAbsentTemplate ==
    /\ ~request.body.template_name.isNone
    /\ request.body.template_name.v # <<>>
    /\ request.body.template_name.v \notin DOMAIN TEMPLATES

\* C2: the template action and the autofill action answer a request naming an
\* explicit template id absent from the registry with 404 and success = false.
C2_AbsentTemplateIsNotFound ==
    ((Processed("template") \/ Processed("autofill")) /\ NamesAbsentTemplate)
    => /\ response.status = 404
       /\ response.body.success = FALSE

\* C3: summarize of a text of at most 30 words, the empty text included, is
\* answered with a success envelope whose result is the text unchanged.
C3_ShortSummaryIsTheText ==
    (Processed("summarize") /\ TokenCount(request.body.text) <= SummaryLimit)
    => /\ response.status = 200
       /\ response.body.success = TRUE
       /\ response.body.result = request.body.text

\* the smaller of two numbers
Min(a, b) == IF a < b THEN a ELSE b

\* C4: GET /logs with limit N returns the last N entries of a usage log that
\* holds one entry per successful POST /process call.
C4_LogsHoldSuccessfulCalls ==
    (Done /\ request.method = "GET" /\ request.path = "/logs")
    => /\ response.status = 200
       /\ Len(response.body.logs) = Min(request.body.limit, processed)

\* the id create derives from a display name: lower-cased, spaces to underscores
DeriveId(name) ==
    [i \in 1..Len(name) |-> IF name[i] = " " THEN "_" ELSE lower_char(name[i])]

\* C5: after POST /templates {name, content, variables} the registry holds,
\* under the derived id, a record with exactly that content and variable list.
C5_CreateThenGet ==
    (Done /\ request.method = "POST" /\ request.path = "/templates")
    => /\ DeriveId(request.body.name) \in DOMAIN TEMPLATES
       /\ TEMPLATES[DeriveId(request.body.name)].content = request.body.content
       /\ TEMPLATES[DeriveId(request.body.name)].variables = request.body.variables

\* the first 30 words of s joined by single spaces, with the ellipsis
Truncated(s) == join(<<" ">>, SubSeq(split(s), 1, SummaryLimit)) \o s_ellipsis

\* C6: summarize of a text of more than 30 words ends with the first 30 words
\* joined by single spaces and the ellipsis, and the envelope's summary_words
\* is the word count of that summary, 30.
C6_LongSummaryHasThirtyWords ==
    (Processed("summarize") /\ TokenCount(request.body.text) > SummaryLimit)
    => /\ response.status = 200
       /\ endswith(response.body.result, Truncated(request.body.text))
       /\ response.body.summary_words = SummaryLimit

\* the number of segments between '.' that hold at least one character
NonEmptySegments(s) ==
    Cardinality({i \in 1..Len(s) : s[i] # "." /\ (i = 1 \/ s[i - 1] = ".")})

\* position i holds the first non-whitespace character of its segment
StartsSentence(s, i) ==
    /\ s[i] \notin Whitespace \cup {"."}
    /\ \A j \in 1..(i - 1) :
        s[j] \notin Whitespace \cup {"."} => \E k \in (j + 1)..(i - 1) : s[k] = "."

\* the number of segments between '.' that hold a non-whitespace character
NonBlankSegments(s) == Cardinality({i \in 1..Len(s) : StartsSentence(s, i)})

\* C7 as stated: analyze never fails; word_count is the number of tokens,
\* character_count the length, sentence_count the number of non-empty segments
\* after splitting on '.'.
C7_SentencesAreNonEmptySegments ==
    Processed("analyze")
    => /\ response.status = 200
       /\ response.body.analysis.word_count = TokenCount(request.body.text)
       /\ response.body.analysis.character_count = Len(request.body.text)
       /\ response.body.analysis.sentence_count = NonEmptySegments(request.body.text)

\* C7 as amended: sentence_count is the number of segments between '.' that
\* hold a non-whitespace character; the rest as stated.
C7_SentencesAreNonBlankSegments ==
    Processed("analyze")
    => /\ response.status = 200
       /\ response.body.analysis.word_count = TokenCount(request.body.text)
       /\ response.body.analysis.character_count = Len(request.body.text)
       /\ response.body.analysis.sentence_count = NonBlankSegments(request.body.text)

C7_Witness ==
    /\ Processed("analyze")
    /\ request.body.text = s_quick
    /\ response.status = 200
    /\ response.body.analysis.word_count = 5
    /\ response.body.analysis.character_count = 26
    /\ response.body.analysis.sentence_count = 1

\* the supplied mapping of the handled request
Supplied == variables_or_empty(request.body.variables)

\* the template the handled request resolves to
Resolved == templates_get(TEMPLATES, request.body.template_name)

\* the variables that template declares
Declared == {Resolved.template.variables[i] : i \in DOMAIN Resolved.template.variables}

\* what autofill_template ended with, read off the response
Outcome ==
    IF response.status = 200 THEN Returned(response.body.result)
    ELSE Raised(response.body.error.arg)

\* C8: two mappings that agree on the variables the template declares give the
\* same autofill outcome.  Such mappings have the same restriction to the
\* declared variables, so it is enough that every mapping gives the outcome of
\* its restriction.
C8_UndeclaredKeysHaveNoEffect ==
    Processed("autofill")
    => autofill_template(TEMPLATES, request.body.template_name, request.body.text,
                         [k \in DOMAIN Supplied \cap Declared |-> Supplied[k]])
       = Outcome

C8_Witness ==
    /\ Processed("autofill")
    /\ request.body.template_name = Some(s_email_template)
    /\ DOMAIN Supplied = {s_subject, s_zz}
    /\ Supplied[s_subject] = Str(placeholder(s_zz))
    /\ Supplied[s_zz] = Str(s_Hi)
    /\ response.status = 200

\* the resolved value of a declared variable
ResolvedValue(var) ==
    IF var \in DOMAIN Supplied THEN Supplied[var].v
    ELSE <<"[">> \o upper(var) \o s_HERE

\* the declared variable whose placeholder starts at position i of body
PlaceholderAt(body, i) == {v \in Declared : occurs_at(body, placeholder(v), i)}

\* body with every placeholder of a declared variable replaced, in one pass,
\* by that variable's resolved value
Substituted(body) ==
    LET starts == ascending({i \in 1..Len(body) : PlaceholderAt(body, i) # {}})
        var(k) == CHOOSE v \in PlaceholderAt(body, starts[k]) : TRUE
        after(k) == IF k = 0 THEN 1 ELSE starts[k] + Len(placeholder(var(k)))
        before(k) == IF k > Len(starts) THEN Len(body) ELSE starts[k] - 1
        piece(n) == IF n % 2 = 1 THEN SubSeq(body, after((n - 1) \div 2), before((n + 1) \div 2))
                    ELSE ResolvedValue(var(n \div 2))
    IN  join(<<>>, [n \in 1..(2 * Len(starts) + 1) |-> piece(n)])

\* s holds the placeholder of a declared variable
HoldsDeclaredPlaceholder(s) ==
    \E v \in Declared : \E i \in 1..Len(s) : occurs_at(s, placeholder(v), i)

\* the handled request is an autofill of a registry template whose supplied
\* values for the declared variables are strings
FillsWithStrings ==
    /\ Processed("autofill")
    /\ Resolved.found
    /\ \A k \in DOMAIN Supplied \cap Declared : Supplied[k].isStr

\* C9 as stated: the autofill result is the template body with each {v} of a
\* declared variable v replaced by v's resolved value, and holds no placeholder
\* of a declared variable.
C9_EveryPlaceholderReplaced ==
    FillsWithStrings
    => /\ response.status = 200
       /\ response.body.result = Substituted(Resolved.template.content)
       /\ ~HoldsDeclaredPlaceholder(response.body.result)

\* C9 as amended: the same, provided no supplied value of a declared variable
\* holds the placeholder of a declared variable.
C9_EveryPlaceholderReplacedByPlainValues ==
    (/\ FillsWithStrings
     /\ \A k \in DOMAIN Supplied \cap Declared : ~HoldsDeclaredPlaceholder(Supplied[k].v))
    => /\ response.status = 200
       /\ response.body.result = Substituted(Resolved.template.content)
       /\ ~HoldsDeclaredPlaceholder(response.body.result)

C9_Witness ==
    /\ Processed("autofill")
    /\ request.body.template_name = Some(s_email_template)
    /\ DOMAIN Supplied = {s_subject}
    /\ Supplied[s_subject] = Str(s_Hi)
    /\ response.status = 200
    /\ occurs_at(response.body.result, <<"S","u","b","j","e","c","t",":"," ","H","i","\n">>, 1)
    /\ endswith(response.body.result, <<"[">> \o upper(s_company) \o s_HERE)

\* s with its first character upper-cased and the rest untouched
FirstLetterCapitalized(s) ==
    [i \in 1..Len(s) |-> IF i = 1 THEN upper_char(s[i]) ELSE s[i]]

\* the trimmed non-blank '.'-delimited segments of the trimmed text, each with
\* its first letter capitalized, joined by '. ' and ended by a period
FormalText(text) ==
    LET segments == sentences_of(strip(text))
    IN  join(<<".", " ">>, [i \in 1..Len(segments) |-> FirstLetterCapitalized(segments[i])])
            \o <<".">>

\* C10: for style formal the corrected text after the label is the segments of
\* the trimmed input, each with its first letter capitalized, joined by '. '
\* and ended by a period; the empty text is returned unchanged, without label.
C10_FormalCapitalizesFirstLetters ==
    (Processed("autocorrect") /\ request.body.style = Some(s_formal))
    => /\ response.status = 200
       /\ response.body.result =
            IF request.body.text = <<>> THEN <<>>
            ELSE <<ROBOT_FACE>> \o s_AI_Corrected \o s_formal \o s_label_end
                    \o FormalText(request.body.text)

====
